---- MODULE Spec2Model ----
(***************************************************************************)
(* Model of the JSON loader (Envoy::Json): the Field value tree, the       *)
(* ObjectHandler SAX state machine that builds it, Factory::loadFromString *)
(* and the Field accessors, serialization and hash.                        *)
(***************************************************************************)
EXTENDS Integers, Sequences, FiniteSets, TLC

\* ------------------------------------------------------------------ bounds
\* Longest event stream the tokenizer delivers in a load explored event by
\* event (Spec).
MaxEvents == 5
\* Longest event stream made of object starts, object ends, keys and strings
\* only: the streams in which keys are delivered at several nesting levels.
MaxNested == 8
\* Longest array in the documents the accessors are called on (SpecQ).
MaxLen == 2

\* ------------------------------------------------------------- primitives
\* A default-constructed FieldSharedPtr (nullptr).
NULL == 0
\* Heap addresses a `new Field` can return.
MaxAddr == 16
Addrs == 1..MaxAddr

\* 64-bit numbers are written q * 2^62 + r with a small offset r, which
\* keeps 2^63 and 2^64 - 1 exact without leaving the checker's integers.
Word(q, r) == [q |-> q, r |-> r]
\* Mutant: a value above INT64_MAX is clamped to INT64_MAX.
ToInt64Saturating(w) == IF w.q > 2 \/ (w.q = 2 /\ w.r >= 0) THEN Word(2, -1) ELSE w

\* static_cast<int64_t>(uint64_t): reinterpretation modulo 2^64.
ToInt64(w) == IF w.q > 2 \/ (w.q = 2 /\ w.r >= 0) THEN Word(w.q - 4, w.r) ELSE w
IsNegative(w) == w.q < 0 \/ (w.q = 0 /\ w.r < 0)

\* Object keys, in the order std::map<std::string, ...> keeps them.
KeySeq == <<"a", "b">>
Keys == {KeySeq[i] : i \in 1..Len(KeySeq)}

\* Inputs of the value events.
Booleans == {TRUE}
SignedInputs == {Word(0, -1)}
\* 2^63 - 1 and 2^63.
UnsignedInputs == {Word(2, -1), Word(2, 0)}
DoubleInputs == {"1.5"}
StringInputs == {"s"}
\* (position, token, ex.what()) triples of parse_error; what() of an
\* nlohmann exception is never empty, the token may be.
ParseErrors == {[position |-> 7, token |-> "}", what |-> "unexpected '}'"],
                [position |-> 9, token |-> "", what |-> "unexpected end of input"]}

\* --------------------------------------------------------------- Field
Types == {"Array", "Boolean", "Double", "Integer", "Null", "Object", "String"}
EmptyMap == [k \in {} |-> NULL]

\* explicit Field(Type type): the Value members are default-constructed.
\* (The scalar members of Value are left indeterminate by the constructor;
\* they are only read behind a type check, so a fixed filler is used.)
Field(type) ==
  [type_ |-> type, array_value_ |-> <<>>, boolean_value_ |-> FALSE,
   double_value_ |-> "", integer_value_ |-> Word(0, 0),
   object_value_ |-> EmptyMap, string_value_ |-> ""]

createObject == Field("Object")
createArray == Field("Array")
createNull == Field("Null")
createString(value) == [Field("String") EXCEPT !.string_value_ = value]
createInteger(value) == [Field("Integer") EXCEPT !.integer_value_ = value]
createDouble(value) == [Field("Double") EXCEPT !.double_value_ = value]
createBoolean(value) == [Field("Boolean") EXCEPT !.boolean_value_ = value]

isType(heap, n, type) == heap[n].type_ = type
isObject(heap, n) == heap[n].type_ = "Object"
isArray(heap, n) == heap[n].type_ = "Array"

\* The message checkType throws.
TypeMismatch(type, actual) == <<"JSON field accessed with type does not match actual type", type, actual>>

\* Mutant: the new element goes to the front.
appendFront(heap, n, ptr) ==
  [heap EXCEPT ![n].array_value_ = <<ptr>> \o @]

\* Field::append after its checkType: push_back.
append(heap, n, ptr) ==
  [heap EXCEPT ![n].array_value_ = Append(@, ptr)]
\* Mutant: an entry the key already has is kept (emplace, not operator[]).
insertKeepsFirst(heap, n, name, ptr) ==
  IF name \in DOMAIN heap[n].object_value_ THEN heap
  ELSE [heap EXCEPT ![n].object_value_ =
          [k \in (DOMAIN @) \cup {name} |-> IF k = name THEN ptr ELSE @[k]]]

\* Field::insert after its checkType: object_value_[key] = field_ptr.
insert(heap, n, name, ptr) ==
  [heap EXCEPT ![n].object_value_ =
     [k \in (DOMAIN @) \cup {name} |-> IF k = name THEN ptr ELSE @[k]]]

\* ------------------------------------------------------ Field accessors
\* What a call on a Field does: kind "ok" (returned; the member for the
\* return type is set), "throw" (Exception with msg) or "abort" (NOT_REACHED).
\* made holds the Field a call created, which the action places at ptr.
R0 == [kind |-> "ok", b |-> FALSE, w |-> Word(0, 0), d |-> "", s |-> "",
       ptr |-> NULL, ptrs |-> <<>>, strs |-> <<>>, msg |-> <<>>, made |-> <<>>,
       text |-> <<>>, digest |-> <<>>]
Throw(msg) == [R0 EXCEPT !.kind = "throw", !.msg = msg]
Abort == [R0 EXCEPT !.kind = "abort"]
RetBool(b) == [R0 EXCEPT !.b = b]
RetInt(w) == [R0 EXCEPT !.w = w]
RetDouble(d) == [R0 EXCEPT !.d = d]
RetString(s) == [R0 EXCEPT !.s = s]
RetPtr(p) == [R0 EXCEPT !.ptr = p]
RetPtrs(ps) == [R0 EXCEPT !.ptrs = ps]
RetStrings(ss) == [R0 EXCEPT !.strs = ss]
RetText(t) == [R0 EXCEPT !.text = t]

\* Mutant: the type check lets every type pass.
checkTypeLax(heap, n, type) == R0

\* checkType(type) on node n: the Exception it throws, or R0 when it passes.
checkType(heap, n, type) ==
  IF ~isType(heap, n, type) THEN Throw(TypeMismatch(type, heap[n].type_)) ELSE R0

find(heap, n, name) == name \in DOMAIN heap[n].object_value_
at(heap, n, name) == heap[n].object_value_[name]

stringValue(heap, n) ==
  IF checkType(heap, n, "String").kind = "throw" THEN checkType(heap, n, "String")
  ELSE RetString(heap[n].string_value_)
arrayValue(heap, n) ==
  IF checkType(heap, n, "Array").kind = "throw" THEN checkType(heap, n, "Array")
  ELSE RetPtrs(heap[n].array_value_)
booleanValue(heap, n) ==
  IF checkType(heap, n, "Boolean").kind = "throw" THEN checkType(heap, n, "Boolean")
  ELSE RetBool(heap[n].boolean_value_)
doubleValue(heap, n) ==
  IF checkType(heap, n, "Double").kind = "throw" THEN checkType(heap, n, "Double")
  ELSE RetDouble(heap[n].double_value_)
integerValue(heap, n) ==
  IF checkType(heap, n, "Integer").kind = "throw" THEN checkType(heap, n, "Integer")
  ELSE RetInt(heap[n].integer_value_)

asString(heap, n) == stringValue(heap, n)
asBoolean(heap, n) == booleanValue(heap, n)
asDouble(heap, n) == doubleValue(heap, n)
asInteger(heap, n) == integerValue(heap, n)

getBoolean(heap, n, name) ==
  IF checkType(heap, n, "Object").kind = "throw" THEN checkType(heap, n, "Object")
  ELSE IF ~find(heap, n, name) \/ ~isType(heap, at(heap, n, name), "Boolean")
       THEN Throw(<<"key '{}' missing or not a boolean", name>>)
       ELSE booleanValue(heap, at(heap, n, name))

getBooleanDefault(heap, n, name, default_value) ==
  IF checkType(heap, n, "Object").kind = "throw" THEN checkType(heap, n, "Object")
  ELSE IF find(heap, n, name) THEN getBoolean(heap, n, name)
       ELSE RetBool(default_value)

getDouble(heap, n, name) ==
  IF checkType(heap, n, "Object").kind = "throw" THEN checkType(heap, n, "Object")
  ELSE IF ~find(heap, n, name) \/ ~isType(heap, at(heap, n, name), "Double")
       THEN Throw(<<"key '{}' missing or not a double", name>>)
       ELSE doubleValue(heap, at(heap, n, name))

getDoubleDefault(heap, n, name, default_value) ==
  IF checkType(heap, n, "Object").kind = "throw" THEN checkType(heap, n, "Object")
  ELSE IF find(heap, n, name) THEN getDouble(heap, n, name)
       ELSE RetDouble(default_value)

getInteger(heap, n, name) ==
  IF checkType(heap, n, "Object").kind = "throw" THEN checkType(heap, n, "Object")
  ELSE IF ~find(heap, n, name) \/ ~isType(heap, at(heap, n, name), "Integer")
       THEN Throw(<<"key '{}' missing or not an integer", name>>)
       ELSE integerValue(heap, at(heap, n, name))

\* Mutant: a key holding another type gets the default.
getIntegerDefaultLenient(heap, n, name, default_value) ==
  IF checkType(heap, n, "Object").kind = "throw" THEN checkType(heap, n, "Object")
  ELSE IF find(heap, n, name) /\ isType(heap, at(heap, n, name), "Integer")
       THEN getInteger(heap, n, name)
       ELSE RetInt(default_value)

getIntegerDefault(heap, n, name, default_value) ==
  IF checkType(heap, n, "Object").kind = "throw" THEN checkType(heap, n, "Object")
  ELSE IF find(heap, n, name) THEN getInteger(heap, n, name)
       ELSE RetInt(default_value)

\* Mutant: allow_empty also covers a key that holds no Object.
getObjectLenient(heap, n, name, allow_empty, addr) ==
  IF checkType(heap, n, "Object").kind = "throw" THEN checkType(heap, n, "Object")
  ELSE IF ~find(heap, n, name) \/ ~isType(heap, at(heap, n, name), "Object")
       THEN IF allow_empty
            THEN [R0 EXCEPT !.ptr = addr, !.made = <<createObject>>]
            ELSE Throw(<<"key '{}' missing from lines", name>>)
       ELSE RetPtr(at(heap, n, name))

\* addr is the address createObject() gets if the call comes to it.
getObject(heap, n, name, allow_empty, addr) ==
  IF checkType(heap, n, "Object").kind = "throw" THEN checkType(heap, n, "Object")
  ELSE IF ~find(heap, n, name)
       THEN IF allow_empty
            THEN [R0 EXCEPT !.ptr = addr, !.made = <<createObject>>]
            ELSE Throw(<<"key '{}' missing from lines", name>>)
       ELSE IF ~isType(heap, at(heap, n, name), "Object")
            THEN Throw(<<"key '{}' not an object", name>>)
            ELSE RetPtr(at(heap, n, name))

\* Mutant: allow_empty also covers a key that holds no Array.
getObjectArrayLenient(heap, n, name, allow_empty) ==
  IF checkType(heap, n, "Object").kind = "throw" THEN checkType(heap, n, "Object")
  ELSE IF ~find(heap, n, name) \/ ~isType(heap, at(heap, n, name), "Array")
       THEN IF allow_empty
            THEN RetPtrs(<<>>)
            ELSE Throw(<<"key '{}' missing or not an array", name>>)
       ELSE arrayValue(heap, at(heap, n, name))

getObjectArray(heap, n, name, allow_empty) ==
  IF checkType(heap, n, "Object").kind = "throw" THEN checkType(heap, n, "Object")
  ELSE IF ~find(heap, n, name) \/ ~isType(heap, at(heap, n, name), "Array")
       THEN IF allow_empty /\ ~find(heap, n, name)
            THEN RetPtrs(<<>>)
            ELSE Throw(<<"key '{}' missing or not an array", name>>)
       ELSE arrayValue(heap, at(heap, n, name))

getString(heap, n, name) ==
  IF checkType(heap, n, "Object").kind = "throw" THEN checkType(heap, n, "Object")
  ELSE IF ~find(heap, n, name) \/ ~isType(heap, at(heap, n, name), "String")
       THEN Throw(<<"key '{}' missing or not a string", name>>)
       ELSE stringValue(heap, at(heap, n, name))

getStringDefault(heap, n, name, default_value) ==
  IF checkType(heap, n, "Object").kind = "throw" THEN checkType(heap, n, "Object")
  ELSE IF find(heap, n, name) THEN getString(heap, n, name)
       ELSE RetString(default_value)

\* Mutant: the loop skips the elements that are no Strings.
RECURSIVE stringArrayLoopSkipping(_, _, _, _, _)
stringArrayLoopSkipping(heap, array, i, string_array, name) ==
  IF i > Len(array) THEN RetStrings(string_array)
  ELSE IF ~isType(heap, array[i], "String")
       THEN stringArrayLoopSkipping(heap, array, i + 1, string_array, name)
       ELSE stringArrayLoopSkipping(heap, array, i + 1,
                                    Append(string_array, heap[array[i]].string_value_), name)

\* The loop of getStringArray from element i on, string_array so far.
RECURSIVE stringArrayLoop(_, _, _, _, _)
stringArrayLoop(heap, array, i, string_array, name) ==
  IF i > Len(array) THEN RetStrings(string_array)
  ELSE IF ~isType(heap, array[i], "String")
       THEN Throw(<<"JSON array '{}' does not contain all strings", name>>)
       ELSE stringArrayLoop(heap, array, i + 1,
                            Append(string_array, stringValue(heap, array[i]).s), name)

getStringArray(heap, n, name, allow_empty) ==
  IF checkType(heap, n, "Object").kind = "throw" THEN checkType(heap, n, "Object")
  ELSE IF ~find(heap, n, name) \/ ~isType(heap, at(heap, n, name), "Array")
       THEN IF allow_empty /\ ~find(heap, n, name)
            THEN RetStrings(<<>>)
            ELSE Throw(<<"key '{}' missing or not an array", name>>)
       ELSE stringArrayLoop(heap, arrayValue(heap, at(heap, n, name)).ptrs, 1, <<>>, name)

asObjectArray(heap, n) ==
  IF checkType(heap, n, "Array").kind = "throw" THEN checkType(heap, n, "Array")
  ELSE RetPtrs(heap[n].array_value_)

\* Mutant: a field that is no container counts as empty.
emptyOfAnything(heap, n) ==
  IF isType(heap, n, "Object") THEN RetBool(heap[n].object_value_ = EmptyMap)
  ELSE IF isType(heap, n, "Array") THEN RetBool(heap[n].array_value_ = <<>>)
  ELSE RetBool(TRUE)

empty(heap, n) ==
  IF isType(heap, n, "Object") THEN RetBool(heap[n].object_value_ = EmptyMap)
  ELSE IF isType(heap, n, "Array") THEN RetBool(heap[n].array_value_ = <<>>)
  ELSE Throw(<<"Json does not support empty() on types other than array and object">>)

hasObject(heap, n, name) ==
  IF checkType(heap, n, "Object").kind = "throw" THEN checkType(heap, n, "Object")
  ELSE RetBool(find(heap, n, name))

\* The keys of a std::map, in its iteration order.
SortedKeys(m) == SelectSeq(KeySeq, LAMBDA k : k \in DOMAIN m)

\* Mutant: the loop goes on after the callback returned false.
RECURSIVE iterateLoopNoBreak(_, _, _, _, _)
iterateLoopNoBreak(m, names, i, stop, ret) ==
  IF i > Len(names) THEN ret
  ELSE iterateLoopNoBreak(m, names, i + 1, stop,
                          [ret EXCEPT !.strs = Append(@, names[i]),
                                      !.ptrs = Append(@, m[names[i]])])

\* The loop of iterate over the entries names[i..] of map m; the callback
\* returns false exactly on the keys in stop. strs lists the keys and ptrs the
\* fields the callback was called with, in call order.
RECURSIVE iterateLoop(_, _, _, _, _)
iterateLoop(m, names, i, stop, ret) ==
  IF i > Len(names) THEN ret
  ELSE LET called == [ret EXCEPT !.strs = Append(@, names[i]),
                                 !.ptrs = Append(@, m[names[i]])] IN
       IF names[i] \in stop THEN called
       ELSE iterateLoop(m, names, i + 1, stop, called)

\* Mutant: the entries are visited in the order they were inserted (the
\* order of their Fields' addresses), not in key order.
RECURSIVE ByAddress(_, _)
ByAddress(m, S) ==
  IF S = {} THEN <<>>
  ELSE LET k == CHOOSE k \in S : \A k2 \in S : m[k] <= m[k2] IN
       <<k>> \o ByAddress(m, S \ {k})
iterateInsertionOrder(heap, n, stop) ==
  IF checkType(heap, n, "Object").kind = "throw" THEN checkType(heap, n, "Object")
  ELSE iterateLoop(heap[n].object_value_,
                   ByAddress(heap[n].object_value_, DOMAIN heap[n].object_value_),
                   1, stop, R0)

iterate(heap, n, stop) ==
  IF checkType(heap, n, "Object").kind = "throw" THEN checkType(heap, n, "Object")
  ELSE iterateLoop(heap[n].object_value_, SortedKeys(heap[n].object_value_), 1, stop, R0)

validateSchema(heap, n) == Throw(<<"not implemented">>)

\* -------------------------------------------------------- serialization
\* An nlohmann::json value: t is its value_t, a the elements of an array,
\* o the members of an object (a std::map, so rendered in key order).
J0 == [t |-> "null", b |-> FALSE, w |-> Word(0, 0), d |-> "", s |-> "",
       a |-> <<>>, o |-> EmptyMap]
JBool(b) == [J0 EXCEPT !.t = "boolean", !.b = b]
JInt(w) == [J0 EXCEPT !.t = "number_integer", !.w = w]
JFloat(d) == [J0 EXCEPT !.t = "number_float", !.d = d]
JString(s) == [J0 EXCEPT !.t = "string", !.s = s]

\* json::push_back: a null value becomes an array first.
push_back(value, x) ==
  IF value.t = "null" THEN [J0 EXCEPT !.t = "array", !.a = <<x>>]
  ELSE [value EXCEPT !.a = Append(@, x)]
\* json::emplace: a null value becomes an object first; an existing member
\* is kept.
emplace(value, name, x) ==
  LET obj == IF value.t = "null" THEN [J0 EXCEPT !.t = "object"] ELSE value IN
  IF name \in DOMAIN obj.o THEN obj
  ELSE [obj EXCEPT !.o = [k \in (DOMAIN @) \cup {name} |-> IF k = name THEN x ELSE @[k]]]

\* Field::buildJsonDocument(field, value): the json that value has become
\* when it returns, or t = "abort" where it reaches NOT_REACHED.
RECURSIVE buildJsonDocument(_, _, _)
RECURSIVE buildArrayLoop(_, _, _, _)
RECURSIVE buildObjectLoop(_, _, _, _, _)

\* The inner switch: what is pushed or emplaced for one child.
childJson(heap, c) ==
  CASE heap[c].type_ \in {"Array", "Object"} -> buildJsonDocument(heap, c, J0)
    [] heap[c].type_ = "Boolean" -> JBool(heap[c].boolean_value_)
    [] heap[c].type_ = "Double" -> JFloat(heap[c].double_value_)
    [] heap[c].type_ = "Integer" -> JInt(heap[c].integer_value_)
    [] heap[c].type_ = "Null" -> J0
    [] heap[c].type_ = "String" -> JString(heap[c].string_value_)

buildArrayLoop(heap, elements, i, value) ==
  IF i > Len(elements) THEN value
  ELSE buildArrayLoop(heap, elements, i + 1, push_back(value, childJson(heap, elements[i])))

buildObjectLoop(heap, m, names, i, value) ==
  IF i > Len(names) THEN value
  ELSE buildObjectLoop(heap, m, names, i + 1,
                       emplace(value, names[i], childJson(heap, m[names[i]])))

buildJsonDocument(heap, n, value) ==
  CASE heap[n].type_ = "Array" -> buildArrayLoop(heap, heap[n].array_value_, 1, value)
    [] heap[n].type_ = "Object" ->
         buildObjectLoop(heap, heap[n].object_value_, SortedKeys(heap[n].object_value_),
                         1, value)
    [] heap[n].type_ = "Null" -> value
    [] OTHER -> [J0 EXCEPT !.t = "abort"]

asJsonDocument(heap, n) == buildJsonDocument(heap, n, J0)

\* JSON text is kept as its sequence of tokens.
Tok(k, s) == [k |-> k, s |-> s, w |-> Word(0, 0)]
Punct(c) == Tok("punct", c)
NumTok(w) == [k |-> "integer", s |-> "", w |-> w]

\* json::dump(): compact text of a json value.
RECURSIVE dump(_)
RECURSIVE dumpElements(_, _)
RECURSIVE dumpMembers(_, _, _)
dumpElements(a, i) ==
  IF i > Len(a) THEN <<>>
  ELSE (IF i > 1 THEN <<Punct(",")>> ELSE <<>>) \o dump(a[i]) \o dumpElements(a, i + 1)
dumpMembers(o, names, i) ==
  IF i > Len(names) THEN <<>>
  ELSE (IF i > 1 THEN <<Punct(",")>> ELSE <<>>)
       \o <<Tok("string", names[i]), Punct(":")>> \o dump(o[names[i]])
       \o dumpMembers(o, names, i + 1)
dump(j) ==
  CASE j.t = "null" -> <<Tok("literal", "null")>>
    [] j.t = "boolean" -> <<Tok("literal", IF j.b THEN "true" ELSE "false")>>
    [] j.t = "number_integer" -> <<NumTok(j.w)>>
    [] j.t = "number_float" -> <<Tok("float", j.d)>>
    [] j.t = "string" -> <<Tok("string", j.s)>>
    [] j.t = "array" -> <<Punct("[")>> \o dumpElements(j.a, 1) \o <<Punct("]")>>
    [] j.t = "object" -> <<Punct("{")>> \o dumpMembers(j.o, SortedKeys(j.o), 1) \o <<Punct("}")>>

asJsonString(heap, n) ==
  LET j == asJsonDocument(heap, n) IN
  IF j.t = "abort" THEN Abort ELSE RetText(dump(j))

\* HashUtil::xxHash64: a function of the bytes hashed and of nothing else.
xxHash64(text) == <<"xxHash64", text>>

\* Mutant: the digest is taken of the Field's address, not of its text.
hashOfAddress(heap, n) == [R0 EXCEPT !.digest = xxHash64(<<n>>)]

hash(heap, n) ==
  LET j == asJsonString(heap, n) IN
  IF j.kind = "abort" THEN Abort ELSE [R0 EXCEPT !.digest = xxHash64(j.text)]

\* --------------------------------------------------------- ObjectHandler
States == {"ExpectRoot", "ExpectKeyOrEndObject", "ExpectValueOrStartObjectArray",
           "ExpectArrayValueOrEndArray", "ExpectFinished"}

\* error_offset_ has no initializer; it is read only after hasParseError(),
\* that is after parse_error assigned it.
Indeterminate == -1

\* ObjectHandler() : state_(State::ExpectRoot) {} and the memory it sees.
\* ret is what the last callback did: "true"/"false" returned, "abort"
\* (NOT_REACHED), "throw" (an Exception left the callback), "ub".
NewHandler ==
  [state_ |-> "ExpectRoot", stack_ |-> <<>>, key_ |-> "", root_ |-> NULL,
   error_ |-> "", error_token_ |-> "", error_offset_ |-> Indeterminate,
   heap |-> [a \in {} |-> createNull], ret |-> "true", thrown |-> <<>>]

top(h) == h.stack_[Len(h.stack_)]
\* Mutant: nothing is popped.
popNothing(stack) == stack
pop(stack) == SubSeq(stack, 1, Len(stack) - 1)

Returns(h, r) == [h EXCEPT !.ret = r]
Throws(h, msg) == [h EXCEPT !.ret = "throw", !.thrown = msg]

\* stack_.top()->insert(key_, ptr)
topInsert(h, ptr) ==
  IF h.stack_ = <<>> THEN Returns(h, "ub")
  ELSE IF ~isType(h.heap, top(h), "Object")
       THEN Throws(h, TypeMismatch("Object", h.heap[top(h)].type_))
       ELSE [h EXCEPT !.heap = insert(h.heap, top(h), h.key_, ptr), !.ret = "true"]
\* Mutant: the element is appended twice.
topAppendTwice(h, ptr) ==
  IF h.stack_ = <<>> THEN Returns(h, "ub")
  ELSE IF ~isType(h.heap, top(h), "Array")
       THEN Throws(h, TypeMismatch("Array", h.heap[top(h)].type_))
       ELSE [h EXCEPT !.heap = append(append(h.heap, top(h), ptr), top(h), ptr),
                      !.ret = "true"]

\* stack_.top()->append(ptr)
topAppend(h, ptr) ==
  IF h.stack_ = <<>> THEN Returns(h, "ub")
  ELSE IF ~isType(h.heap, top(h), "Array")
       THEN Throws(h, TypeMismatch("Array", h.heap[top(h)].type_))
       ELSE [h EXCEPT !.heap = append(h.heap, top(h), ptr), !.ret = "true"]

Alloc(h, addr, field) == [h EXCEPT !.heap = (addr :> field) @@ h.heap]

\* Mutant: a container start after the document begins a new root.
startContainerAgain(h, addr, field, next) ==
  LET h1 == Alloc(h, addr, field) IN
  CASE h1.state_ = "ExpectValueOrStartObjectArray" ->
         LET h2 == topInsert(h1, addr) IN
         IF h2.ret # "true" THEN h2
         ELSE [h2 EXCEPT !.stack_ = Append(@, addr), !.state_ = next]
    [] h1.state_ = "ExpectArrayValueOrEndArray" ->
         LET h2 == topAppend(h1, addr) IN
         IF h2.ret # "true" THEN h2
         ELSE [h2 EXCEPT !.stack_ = Append(@, addr), !.state_ = next]
    [] h1.state_ \in {"ExpectRoot", "ExpectFinished"} ->
         [h1 EXCEPT !.root_ = addr, !.stack_ = Append(@, addr), !.state_ = next,
                    !.ret = "true"]
    [] OTHER -> Returns(h1, "abort")

\* A container start: the three accepted states share the push; next is the
\* state the accepted cases assign.
startContainer(h, addr, field, next) ==
  LET h1 == Alloc(h, addr, field) IN
  CASE h1.state_ = "ExpectValueOrStartObjectArray" ->
         LET h2 == topInsert(h1, addr) IN
         IF h2.ret # "true" THEN h2
         ELSE [h2 EXCEPT !.stack_ = Append(@, addr), !.state_ = next]
    [] h1.state_ = "ExpectArrayValueOrEndArray" ->
         LET h2 == topAppend(h1, addr) IN
         IF h2.ret # "true" THEN h2
         ELSE [h2 EXCEPT !.stack_ = Append(@, addr), !.state_ = next]
    [] h1.state_ = "ExpectRoot" ->
         [h1 EXCEPT !.root_ = addr, !.stack_ = Append(@, addr), !.state_ = next,
                    !.ret = "true"]
    [] OTHER -> Returns(h1, "abort")

\* Mutant: an array start moves to the state of an object start.
start_arrayAsObject(h, addr) ==
  startContainer(h, addr, createArray, "ExpectKeyOrEndObject")

start_object(h, addr) == startContainer(h, addr, createObject, "ExpectKeyOrEndObject")
start_array(h, addr) == startContainer(h, addr, createArray, "ExpectArrayValueOrEndArray")

\* Mutant: every container end finishes the document.
endContainerFinishes(h) ==
  IF h.stack_ = <<>> THEN Returns(h, "ub")
  ELSE [h EXCEPT !.stack_ = pop(h.stack_), !.state_ = "ExpectFinished", !.ret = "true"]

\* Mutant: closing back into an Object waits for a value, not for a key.
endContainerAwaitsValue(h) ==
  IF h.stack_ = <<>> THEN Returns(h, "ub")
  ELSE LET s == pop(h.stack_) IN
       [h EXCEPT !.stack_ = s,
                 !.state_ = IF s = <<>> THEN "ExpectFinished"
                            ELSE IF isObject(h.heap, s[Len(s)])
                                 THEN "ExpectValueOrStartObjectArray"
                            ELSE IF isArray(h.heap, s[Len(s)]) THEN "ExpectArrayValueOrEndArray"
                            ELSE @,
                 !.ret = "true"]

\* The body end_object and end_array share after their state check.
endContainer(h) ==
  IF h.stack_ = <<>> THEN Returns(h, "ub")
  ELSE LET s == pop(h.stack_) IN
       [h EXCEPT !.stack_ = s,
                 !.state_ = IF s = <<>> THEN "ExpectFinished"
                            ELSE IF isObject(h.heap, s[Len(s)]) THEN "ExpectKeyOrEndObject"
                            ELSE IF isArray(h.heap, s[Len(s)]) THEN "ExpectArrayValueOrEndArray"
                            ELSE @,
                 !.ret = "true"]

end_object(h) ==
  IF h.state_ = "ExpectKeyOrEndObject" THEN endContainer(h) ELSE Returns(h, "abort")

end_array(h) ==
  IF h.state_ = "ExpectArrayValueOrEndArray" THEN endContainer(h) ELSE Returns(h, "abort")

\* Mutant: a key is taken in every state.
keyAnywhere(h, val) ==
  [h EXCEPT !.key_ = val, !.state_ = "ExpectValueOrStartObjectArray", !.ret = "true"]

key(h, val) ==
  IF h.state_ = "ExpectKeyOrEndObject"
  THEN [h EXCEPT !.key_ = val, !.state_ = "ExpectValueOrStartObjectArray", !.ret = "true"]
  ELSE Returns(h, "abort")

\* Mutant: a value given to a key leaves the state waiting for a value.
handleValueEventKeepsState(h, addr, field) ==
  LET h1 == Alloc(h, addr, field) IN
  CASE h1.state_ = "ExpectValueOrStartObjectArray" -> topInsert(h1, addr)
    [] h1.state_ = "ExpectArrayValueOrEndArray" -> topAppend(h1, addr)
    [] OTHER -> Returns(h, "false")

handleValueEvent(h, addr, field) ==
  LET h1 == Alloc(h, addr, field) IN
  CASE h1.state_ = "ExpectValueOrStartObjectArray" ->
         topInsert([h1 EXCEPT !.state_ = "ExpectKeyOrEndObject"], addr)
    [] h1.state_ = "ExpectArrayValueOrEndArray" -> topAppend(h1, addr)
    [] OTHER -> Returns(h, "false")

boolean(h, addr, value) == handleValueEvent(h, addr, createBoolean(value))
number_integer(h, addr, value) == handleValueEvent(h, addr, createInteger(value))
number_unsigned(h, addr, value) == handleValueEvent(h, addr, createInteger(ToInt64(value)))
number_float(h, addr, value) == handleValueEvent(h, addr, createDouble(value))
null(h, addr) == handleValueEvent(h, addr, createNull)
string(h, addr, value) == handleValueEvent(h, addr, createString(value))
binary(h) == Returns(h, "false")
parse_error(h, position, token, what) ==
  [h EXCEPT !.error_offset_ = position, !.error_ = what, !.error_token_ = token,
            !.ret = "true"]

hasParseError(h) == h.error_ # ""

\* ------------------------------------------------------------- the events
Ev(kind) == [kind |-> kind, b |-> FALSE, w |-> Word(0, 0), d |-> "", s |-> "",
             position |-> 0, token |-> "", what |-> ""]
ScalarKinds == {"boolean", "number_integer", "number_unsigned", "number_float",
                "null", "string"}
StartKinds == {"start_object", "start_array"}
\* The events of nested objects with string members.
NestedKinds == {"start_object", "end_object", "key", "string"}

\* The callback the tokenizer invokes for an event.
OnEvent(h, ev, addr) ==
  CASE ev.kind = "start_object" -> start_object(h, addr)
    [] ev.kind = "end_object" -> end_object(h)
    [] ev.kind = "key" -> key(h, ev.s)
    [] ev.kind = "start_array" -> start_array(h, addr)
    [] ev.kind = "end_array" -> end_array(h)
    [] ev.kind = "boolean" -> boolean(h, addr, ev.b)
    [] ev.kind = "number_integer" -> number_integer(h, addr, ev.w)
    [] ev.kind = "number_unsigned" -> number_unsigned(h, addr, ev.w)
    [] ev.kind = "number_float" -> number_float(h, addr, ev.d)
    [] ev.kind = "null" -> null(h, addr)
    [] ev.kind = "string" -> string(h, addr, ev.s)
    [] ev.kind = "binary" -> binary(h)
    [] ev.kind = "parse_error" -> parse_error(h, ev.position, ev.token, ev.what)

\* `new Field` returns some free address; the load under check takes the
\* lowest one, an independent load (see LoadEvents) may take the highest.
Free(h) == Addrs \ DOMAIN h.heap
NewAddrLow(h) == CHOOSE a \in Free(h) : \A b \in Free(h) : a <= b
NewAddrHigh(h) == CHOOSE a \in Free(h) : \A b \in Free(h) : a >= b

\* What the JSON text parser delivers next, given what the handler has seen:
\* the grammar's events, a parse_error where the grammar is broken, and after
\* the document (or after a parse_error that returned true) only the strict
\* trailing-input parse_error. `strict` tells that this last check has run.
TokenizerMayDeliver(h, errors, ev) ==
  IF errors # <<>>
  THEN ev.kind = "parse_error" /\ Len(errors) = 1 /\ errors[1].internal
  ELSE CASE h.state_ = "ExpectRoot" ->
              ev.kind \in StartKinds \cup ScalarKinds \cup {"parse_error"}
         [] h.state_ = "ExpectKeyOrEndObject" ->
              ev.kind \in {"key", "end_object", "parse_error"}
         [] h.state_ = "ExpectValueOrStartObjectArray" ->
              ev.kind \in StartKinds \cup ScalarKinds \cup {"parse_error"}
         [] h.state_ = "ExpectArrayValueOrEndArray" ->
              ev.kind \in StartKinds \cup ScalarKinds \cup {"end_array", "parse_error"}
         [] h.state_ = "ExpectFinished" -> ev.kind = "parse_error"

\* ------------------------------------------------------- loadFromString
\* nlohmann::json::sax_parse on well-formed text (all that dump() writes):
\* the events of tokens i.. of the text, in order.
RECURSIVE sax_events(_, _)
sax_events(text, i) ==
  IF i > Len(text) THEN <<>>
  ELSE LET t == text[i] IN
       (CASE t = Punct("{") -> <<Ev("start_object")>>
          [] t = Punct("}") -> <<Ev("end_object")>>
          [] t = Punct("[") -> <<Ev("start_array")>>
          [] t = Punct("]") -> <<Ev("end_array")>>
          [] t.k = "punct" /\ t.s \in {",", ":"} -> <<>>
          [] t.k = "string" ->
               IF i < Len(text) /\ text[i + 1] = Punct(":")
               THEN <<[Ev("key") EXCEPT !.s = t.s]>>
               ELSE <<[Ev("string") EXCEPT !.s = t.s]>>
          [] t.k = "integer" ->
               IF IsNegative(t.w) THEN <<[Ev("number_integer") EXCEPT !.w = t.w]>>
               ELSE <<[Ev("number_unsigned") EXCEPT !.w = t.w]>>
          [] t.k = "float" -> <<[Ev("number_float") EXCEPT !.d = t.s]>>
          [] t = Tok("literal", "null") -> <<Ev("null")>>
          [] t.k = "literal" -> <<[Ev("boolean") EXCEPT !.b = (t.s = "true")]>>)
       \o sax_events(text, i + 1)

\* sax_parse feeding events i.. of evs to handler h; it stops at the first
\* callback that does not return true. high picks the allocator.
RECURSIVE feed(_, _, _, _)
feed(h, evs, i, high) ==
  IF i > Len(evs) \/ h.ret # "true" THEN h
  ELSE feed(OnEvent(h, evs[i], IF high THEN NewAddrHigh(h) ELSE NewAddrLow(h)),
            evs, i + 1, high)

NoResult == [kind |-> "none", root |-> NULL, offset |-> 0, token |-> "", message |-> <<>>]

\* Factory::loadFromString once sax_parse is over, on the handler it left.
loadResult(h) ==
  CASE h.ret \in {"abort", "ub"} -> [NoResult EXCEPT !.kind = "abort"]
    [] h.ret = "throw" -> [NoResult EXCEPT !.kind = "exception", !.message = h.thrown]
    [] OTHER ->
         IF hasParseError(h)
         THEN [kind |-> "exception", root |-> NULL, offset |-> h.error_offset_,
               token |-> h.error_token_,
               message |-> <<"JSON supplied is not valid. Error(offset {}, token {}): {}", h.error_>>]
         ELSE [NoResult EXCEPT !.kind = "root", !.root = h.root_]

\* A whole load of an event stream, and of a text: result and heap.
loadFromEvents(evs, high) ==
  LET h == feed(NewHandler, evs, 1, high) IN [result |-> loadResult(h), heap |-> h.heap]
loadFromString(text, high) == loadFromEvents(sax_events(text, 1), high)

\* ---------------------------------------------------------------- state
VARIABLES
  state_, stack_, key_, root_, error_, error_token_, error_offset_,  \* ObjectHandler
  heap,        \* the Field objects, by address
  pc,          \* where loadFromString is: "parsing", "halted", "returned", "thrown", "aborted"
  result,      \* what loadFromString returned or threw
  events,      \* history: the events delivered so far
  errors,      \* history: the parse_error events delivered so far
  conforming,  \* history: every event so far is one the JSON text parser delivers
  call,        \* the last accessor call on the loaded tree and what it did
  temp         \* the objects getObject(.., true) made that the caller still holds

vars == <<state_, stack_, key_, root_, error_, error_token_, error_offset_,
          heap, pc, result, events, errors, conforming, call, temp>>

handler_vars == <<state_, stack_, key_, root_, error_, error_token_, error_offset_>>
history_vars == <<events, errors, conforming>>

H == [state_ |-> state_, stack_ |-> stack_, key_ |-> key_, root_ |-> root_,
      error_ |-> error_, error_token_ |-> error_token_,
      error_offset_ |-> error_offset_, heap |-> heap, ret |-> "true",
      thrown |-> <<>>]

\* Arguments the caller passes as defaults, and the callbacks it iterates
\* with (the keys on which the callback returns false).
DefaultBoolean == FALSE
DefaultDouble == "2.5"
DefaultInteger == Word(0, 7)
DefaultString == "dflt"
StopSets == {{}, {"a"}, {"b"}}

NoCall == [op |-> "none"]

Init ==
  /\ state_ = NewHandler.state_
  /\ stack_ = NewHandler.stack_
  /\ key_ = NewHandler.key_
  /\ root_ = NewHandler.root_
  /\ error_ = NewHandler.error_
  /\ error_token_ = NewHandler.error_token_
  /\ error_offset_ = NewHandler.error_offset_
  /\ heap = NewHandler.heap
  /\ pc = "parsing"
  /\ result = NoResult
  /\ events = <<>>
  /\ errors = <<>>
  /\ conforming = TRUE
  /\ call = NoCall
  /\ temp = {}

\* One callback invoked by sax_parse, and what sax_parse does with its
\* return value: false ends the parse, NOT_REACHED ends the process, an
\* Exception leaves loadFromString.
Deliver(ev) ==
  /\ \/ Len(events) < MaxEvents
     \/ /\ Len(events) < MaxNested
        /\ ev.kind \in NestedKinds
        /\ \A i \in DOMAIN events : events[i].kind \in NestedKinds
  /\ LET h == OnEvent(H, ev, NewAddrLow(H)) IN
     /\ state_' = h.state_
     /\ stack_' = h.stack_
     /\ key_' = h.key_
     /\ root_' = h.root_
     /\ error_' = h.error_
     /\ error_token_' = h.error_token_
     /\ error_offset_' = h.error_offset_
     /\ heap' = h.heap
     /\ pc' = CASE h.ret = "true" -> "parsing"
                [] h.ret = "false" -> "halted"
                [] h.ret = "throw" -> "thrown"
                [] OTHER -> "aborted"
     /\ result' = IF h.ret = "throw"
                  THEN [NoResult EXCEPT !.kind = "exception", !.message = h.thrown]
                  ELSE result
  /\ events' = Append(events, ev)
  /\ errors' = IF ev.kind = "parse_error"
               THEN Append(errors, [position |-> ev.position, token |-> ev.token,
                                    what |-> ev.what,
                                    internal |-> state_ # "ExpectFinished" /\ errors = <<>>])
               ELSE errors
  /\ conforming' = (conforming /\ TokenizerMayDeliver(H, errors, ev))
  /\ UNCHANGED <<call, temp>>

\* One action per callback of the handler; each needs the parse to be running.
StartObject == pc = "parsing" /\ Deliver(Ev("start_object"))
EndObject == pc = "parsing" /\ Deliver(Ev("end_object"))
Key == pc = "parsing" /\ \E val \in Keys : Deliver([Ev("key") EXCEPT !.s = val])
StartArray == pc = "parsing" /\ Deliver(Ev("start_array"))
EndArray == pc = "parsing" /\ Deliver(Ev("end_array"))
Boolean ==
  pc = "parsing" /\ \E value \in Booleans : Deliver([Ev("boolean") EXCEPT !.b = value])
NumberInteger ==
  pc = "parsing" /\ \E value \in SignedInputs :
                       Deliver([Ev("number_integer") EXCEPT !.w = value])
NumberUnsigned ==
  pc = "parsing" /\ \E value \in UnsignedInputs :
                       Deliver([Ev("number_unsigned") EXCEPT !.w = value])
NumberFloat ==
  pc = "parsing" /\ \E value \in DoubleInputs :
                       Deliver([Ev("number_float") EXCEPT !.d = value])
Null == pc = "parsing" /\ Deliver(Ev("null"))
String ==
  pc = "parsing" /\ \E value \in StringInputs : Deliver([Ev("string") EXCEPT !.s = value])
Binary == pc = "parsing" /\ Deliver(Ev("binary"))
ParseError ==
  pc = "parsing" /\ \E e \in ParseErrors :
                       Deliver([Ev("parse_error") EXCEPT !.position = e.position,
                                                         !.token = e.token, !.what = e.what])

\* sax_parse is over: a callback returned false, or the parser reached the
\* end of the text after the document or after reporting an error.
ParseOver == pc = "halted" \/ (pc = "parsing" /\ (state_ = "ExpectFinished" \/ errors # <<>>))

\* Factory::loadFromString after sax_parse.
Return ==
  /\ ParseOver
  /\ result' = loadResult(H)
  /\ pc' = IF result'.kind = "exception" THEN "thrown" ELSE "returned"
  /\ UNCHANGED <<handler_vars, heap, history_vars, call, temp>>

\* The nodes reachable from n through array elements and object members.
RECURSIVE Reach(_, _)
Reach(hp, n) ==
  {n} \cup UNION {Reach(hp, hp[n].array_value_[i]) : i \in DOMAIN hp[n].array_value_}
      \cup UNION {Reach(hp, hp[n].object_value_[k]) : k \in DOMAIN hp[n].object_value_}

\* The handles the caller can make its next call on: the root loadFromString
\* returned, then whatever the last call handed out.
Receivers ==
  IF pc # "returned" \/ result.root = NULL THEN {}
  ELSE IF call.op = "none" THEN {result.root}
  ELSE IF call.ret.kind # "ok" THEN {}
  ELSE ({call.ret.ptr} \ {NULL}) \cup {call.ret.ptrs[i] : i \in DOMAIN call.ret.ptrs}

\* Mutant: the Field a call made is also attached to the receiver under the
\* requested key.
DoCallAttaching(op, n, name, flag, stop, ret) ==
  /\ call' = [op |-> op, recv |-> n, name |-> name, flag |-> flag, stop |-> stop,
              ret |-> ret]
  /\ IF ret.made # <<>>
     THEN /\ heap' = insert([a \in ((DOMAIN heap) \ (temp \ {n})) \cup {ret.ptr} |->
                               IF a = ret.ptr THEN ret.made[1] ELSE heap[a]],
                            n, name, ret.ptr)
          /\ temp' = (temp \cap {n}) \cup {ret.ptr}
     ELSE UNCHANGED <<heap, temp>>
  /\ pc' = IF ret.kind = "abort" THEN "aborted" ELSE pc
  /\ UNCHANGED <<handler_vars, result, history_vars>>

\* A call on the loaded tree. A Field the call made is placed at the address
\* the call was given; the caller keeps it and the receiver and lets go of
\* what else it held from earlier calls. NOT_REACHED ends the process.
DoCall(op, n, name, flag, stop, ret) ==
  /\ call' = [op |-> op, recv |-> n, name |-> name, flag |-> flag, stop |-> stop,
              ret |-> ret]
  /\ IF ret.made # <<>>
     THEN /\ heap' = [a \in ((DOMAIN heap) \ (temp \ {n})) \cup {ret.ptr} |->
                        IF a = ret.ptr THEN ret.made[1] ELSE heap[a]]
          /\ temp' = (temp \cap {n}) \cup {ret.ptr}
     ELSE UNCHANGED <<heap, temp>>
  /\ pc' = IF ret.kind = "abort" THEN "aborted" ELSE pc
  /\ UNCHANGED <<handler_vars, result, history_vars>>

CallGetBoolean ==
  \E n \in Receivers, name \in Keys :
    DoCall("getBoolean", n, name, FALSE, {}, getBoolean(heap, n, name))
CallGetBooleanDefault ==
  \E n \in Receivers, name \in Keys :
    DoCall("getBooleanDefault", n, name, FALSE, {},
           getBooleanDefault(heap, n, name, DefaultBoolean))
CallGetDouble ==
  \E n \in Receivers, name \in Keys :
    DoCall("getDouble", n, name, FALSE, {}, getDouble(heap, n, name))
CallGetDoubleDefault ==
  \E n \in Receivers, name \in Keys :
    DoCall("getDoubleDefault", n, name, FALSE, {},
           getDoubleDefault(heap, n, name, DefaultDouble))
CallGetInteger ==
  \E n \in Receivers, name \in Keys :
    DoCall("getInteger", n, name, FALSE, {}, getInteger(heap, n, name))
CallGetIntegerDefault ==
  \E n \in Receivers, name \in Keys :
    DoCall("getIntegerDefault", n, name, FALSE, {},
           getIntegerDefault(heap, n, name, DefaultInteger))
CallGetObject ==
  \E n \in Receivers, name \in Keys, allow_empty \in BOOLEAN :
    DoCall("getObject", n, name, allow_empty, {},
           getObject(heap, n, name, allow_empty, NewAddrLow([heap |-> heap])))
CallGetObjectArray ==
  \E n \in Receivers, name \in Keys, allow_empty \in BOOLEAN :
    DoCall("getObjectArray", n, name, allow_empty, {},
           getObjectArray(heap, n, name, allow_empty))
CallGetString ==
  \E n \in Receivers, name \in Keys :
    DoCall("getString", n, name, FALSE, {}, getString(heap, n, name))
CallGetStringDefault ==
  \E n \in Receivers, name \in Keys :
    DoCall("getStringDefault", n, name, FALSE, {},
           getStringDefault(heap, n, name, DefaultString))
CallGetStringArray ==
  \E n \in Receivers, name \in Keys, allow_empty \in BOOLEAN :
    DoCall("getStringArray", n, name, allow_empty, {},
           getStringArray(heap, n, name, allow_empty))
CallAsObjectArray ==
  \E n \in Receivers : DoCall("asObjectArray", n, "", FALSE, {}, asObjectArray(heap, n))
CallAsString ==
  \E n \in Receivers : DoCall("asString", n, "", FALSE, {}, asString(heap, n))
CallAsBoolean ==
  \E n \in Receivers : DoCall("asBoolean", n, "", FALSE, {}, asBoolean(heap, n))
CallAsDouble ==
  \E n \in Receivers : DoCall("asDouble", n, "", FALSE, {}, asDouble(heap, n))
CallAsInteger ==
  \E n \in Receivers : DoCall("asInteger", n, "", FALSE, {}, asInteger(heap, n))
CallAsJsonString ==
  \E n \in Receivers : DoCall("asJsonString", n, "", FALSE, {}, asJsonString(heap, n))
CallHash ==
  \E n \in Receivers : DoCall("hash", n, "", FALSE, {}, hash(heap, n))
CallEmpty ==
  \E n \in Receivers : DoCall("empty", n, "", FALSE, {}, empty(heap, n))
CallHasObject ==
  \E n \in Receivers, name \in Keys :
    DoCall("hasObject", n, name, FALSE, {}, hasObject(heap, n, name))
CallIterate ==
  \E n \in Receivers, stop \in StopSets :
    DoCall("iterate", n, "", FALSE, stop, iterate(heap, n, stop))
CallValidateSchema ==
  \E n \in Receivers : DoCall("validateSchema", n, "", FALSE, {}, validateSchema(heap, n))

\* Loading: the tokenizer's callbacks, then the return of loadFromString.
Next ==
  \/ StartObject \/ EndObject \/ Key \/ StartArray \/ EndArray
  \/ Boolean \/ NumberInteger \/ NumberUnsigned \/ NumberFloat \/ Null \/ String
  \/ Binary \/ ParseError
  \/ Return

Spec == Init /\ [][Next]_vars

\* ---------------------------------------------------- calls on loaded trees
\* The documents whose text is loaded before the calls: a root object over
\* Keys or a root array, nested two levels deep.
Leaves == {JBool(TRUE), JInt(Word(0, -1)), JFloat("1.5"), J0, JString("s")}
Elements == {JString("s"), JString("t"), JInt(Word(0, -1))}
JArray(a) == [J0 EXCEPT !.t = "array", !.a = a]
JObject(o) == [J0 EXCEPT !.t = "object", !.o = o]
ArraysOf(V, n) == {JArray(a) : a \in UNION {[1..k -> V] : k \in 0..n}}
ObjectsOf(V) == {JObject(o) : o \in UNION {[K -> V] : K \in SUBSET Keys}}
Inner == Leaves \cup ArraysOf(Elements, MaxLen) \cup ObjectsOf({JString("s"), JInt(Word(0, -1))})
Documents ==
  {JObject(EmptyMap)}
    \cup {JObject([k \in {"a"} |-> x]) : x \in Inner}
    \cup {JObject([k \in Keys |-> IF k = "a" THEN x ELSE y]) : x \in Inner, y \in Leaves}
    \cup ArraysOf(Leaves \cup {JArray(<<>>), JObject(EmptyMap)}, MaxLen)

\* The state after loadFromString(text) returned, for a document's text.
InitQ ==
  \E doc \in Documents :
    LET evs == sax_events(dump(doc), 1)
        h == feed(NewHandler, evs, 1, FALSE) IN
    /\ state_ = h.state_
    /\ stack_ = h.stack_
    /\ key_ = h.key_
    /\ root_ = h.root_
    /\ error_ = h.error_
    /\ error_token_ = h.error_token_
    /\ error_offset_ = h.error_offset_
    /\ heap = h.heap
    /\ result = loadResult(h)
    /\ pc = IF result.kind = "exception" THEN "thrown" ELSE "returned"
    /\ events = evs
    /\ errors = <<>>
    /\ conforming = TRUE
    /\ call = NoCall
    /\ temp = {}

NextQ ==
  \/ CallGetBoolean \/ CallGetBooleanDefault \/ CallGetDouble \/ CallGetDoubleDefault
  \/ CallGetInteger \/ CallGetIntegerDefault \/ CallGetObject \/ CallGetObjectArray
  \/ CallGetString \/ CallGetStringDefault \/ CallGetStringArray
  \/ CallAsObjectArray \/ CallAsString \/ CallAsBoolean \/ CallAsDouble \/ CallAsInteger
  \/ CallAsJsonString \/ CallHash \/ CallEmpty \/ CallHasObject \/ CallIterate
  \/ CallValidateSchema

SpecQ == InitQ /\ [][NextQ]_vars

TypeOK ==
  /\ state_ \in States
  /\ pc \in {"parsing", "halted", "returned", "thrown", "aborted"}
  /\ DOMAIN heap \subseteq Addrs
\* ================================================================ claims
\* The load is over and came back to the caller.
Loaded == result.kind = "root" /\ result.root # NULL

\* --------------------------------------------------------------------- C1
\* C1: for every event stream the JSON text parser can deliver, a returned
\* loadFromString hands back a non-null root of a finished document; the
\* only other outcome is an exception. (A root that is null, or one with
\* containers still open, returned without an error breaks it.)
C1_RootOrError ==
  (pc = "returned" /\ conforming) =>
     (result.kind = "root" /\ result.root # NULL /\ state_ = "ExpectFinished")

\* --------------------------------------------------------------------- C2
\* C2: once loadFromString is over, every parse_error the parser delivered
\* during the load is what the caller gets: an exception carrying that
\* event's offset, token and non-empty message, and no root.
C2_ParseErrorReported ==
  (pc \in {"returned", "thrown"} /\ conforming) =>
     \A i \in DOMAIN errors :
        /\ result.kind = "exception"
        /\ result.root = NULL
        /\ result.offset = errors[i].position
        /\ result.token = errors[i].token
        /\ result.message[2] = errors[i].what
        /\ result.message[2] # ""

\* --------------------------------------------------------------------- C3
\* Two fields answer every accessor call alike; the handles a call hands out
\* are compared by what they answer in turn.
RECURSIVE SameResults(_, _, _, _)
SameHandles(h1, r1, h2, r2) ==
  /\ r1.kind = r2.kind
  /\ r1.msg = r2.msg
  /\ r1.made = r2.made
  /\ (r1.ptr = NULL) = (r2.ptr = NULL)
  /\ Len(r1.ptrs) = Len(r2.ptrs)
  /\ (r1.kind = "ok" /\ r1.made = <<>> /\ r1.ptr # NULL) => SameResults(h1, r1.ptr, h2, r2.ptr)
  /\ \A i \in DOMAIN r1.ptrs : SameResults(h1, r1.ptrs[i], h2, r2.ptrs[i])
SameResults(h1, n1, h2, n2) ==
  /\ \A name \in Keys :
       /\ getBoolean(h1, n1, name) = getBoolean(h2, n2, name)
       /\ getBooleanDefault(h1, n1, name, DefaultBoolean)
            = getBooleanDefault(h2, n2, name, DefaultBoolean)
       /\ getInteger(h1, n1, name) = getInteger(h2, n2, name)
       /\ getIntegerDefault(h1, n1, name, DefaultInteger)
            = getIntegerDefault(h2, n2, name, DefaultInteger)
       /\ getDouble(h1, n1, name) = getDouble(h2, n2, name)
       /\ getString(h1, n1, name) = getString(h2, n2, name)
       /\ getStringDefault(h1, n1, name, DefaultString)
            = getStringDefault(h2, n2, name, DefaultString)
       /\ hasObject(h1, n1, name) = hasObject(h2, n2, name)
       /\ \A allow_empty \in BOOLEAN :
            /\ getStringArray(h1, n1, name, allow_empty)
                 = getStringArray(h2, n2, name, allow_empty)
            /\ SameHandles(h1, getObjectArray(h1, n1, name, allow_empty),
                           h2, getObjectArray(h2, n2, name, allow_empty))
            /\ SameHandles(h1, getObject(h1, n1, name, allow_empty, NULL),
                           h2, getObject(h2, n2, name, allow_empty, NULL))
  /\ empty(h1, n1) = empty(h2, n2)
  /\ asString(h1, n1) = asString(h2, n2)
  /\ asBoolean(h1, n1) = asBoolean(h2, n2)
  /\ asInteger(h1, n1) = asInteger(h2, n2)
  /\ asDouble(h1, n1) = asDouble(h2, n2)
  /\ SameHandles(h1, asObjectArray(h1, n1), h2, asObjectArray(h2, n2))

NoDouble(hp, n) == \A m \in Reach(hp, n) : hp[m].type_ # "Double"

\* C3: reloading the canonical text of a loaded tree without floating-point
\* values succeeds, and the reloaded tree answers every accessor call as the
\* original does.
C3_RoundTrip ==
  (Loaded /\ pc = "returned" /\ conforming /\ NoDouble(heap, result.root)) =>
     LET text == asJsonString(heap, result.root)
         again == loadFromString(text.text, FALSE) IN
     /\ text.kind = "ok"
     /\ again.result.kind = "root"
     /\ again.result.root # NULL
     /\ SameResults(heap, result.root, again.heap, again.result.root)

\* --------------------------------------------------------------------- C4
\* A second, independent load of the same events: a fresh handler whose
\* Fields land at other addresses.
Second == loadFromEvents(events, TRUE)

\* C4: two independent constructions from the same event sequence give the
\* same canonical text and the same hash, and the hash is xxHash64 of the
\* canonical text. Stated of the tree as it is returned, and of what the
\* calls asJsonString() and hash() on it return.
C4_Determinism ==
  (Loaded /\ call.op \in {"none", "asJsonString", "hash"}) =>
     LET second == Second
         text1 == asJsonString(heap, result.root)
         text2 == asJsonString(second.heap, second.result.root)
         hash1 == hash(heap, result.root)
         hash2 == hash(second.heap, second.result.root) IN
     /\ second.result.kind = "root" /\ second.result.root # NULL
     /\ text1 = text2
     /\ hash1 = hash2
     /\ hash1.digest = xxHash64(text1.text)
     /\ (call.op = "asJsonString" /\ call.recv = result.root) => call.ret = text2
     /\ (call.op = "hash" /\ call.recv = result.root) => call.ret = hash2

\* hash() was called on a two-member root object that the second load holds
\* at another address.
C4_Witness ==
  /\ Loaded
  /\ call.op = "hash" /\ call.recv = result.root /\ call.ret.kind = "ok"
  /\ DOMAIN heap[result.root].object_value_ = Keys
  /\ Second.result.root # result.root

\* --------------------------------------------------------------------- C5
\* C5: asJsonString() returns a text on a node of any tag, scalar nodes handed
\* out by asObjectArray/getObjectArray included; it never ends in NOT_REACHED.
C5_RenderingTotal == call.op = "asJsonString" => call.ret.kind = "ok"

\* --------------------------------------------------------------------- C6
\* The last call was made on an Object; child is what call.name maps to.
OnObject == call.op # "none" /\ call.recv \in DOMAIN heap /\ isObject(heap, call.recv)
Present == find(heap, call.recv, call.name)
Child == at(heap, call.recv, call.name)

DefaultedOps == {"getBooleanDefault", "getDoubleDefault", "getIntegerDefault",
                 "getStringDefault"}
WantedTag(op) ==
  CASE op \in {"getBoolean", "getBooleanDefault"} -> "Boolean"
    [] op \in {"getDouble", "getDoubleDefault"} -> "Double"
    [] op \in {"getInteger", "getIntegerDefault"} -> "Integer"
    [] op \in {"getString", "getStringDefault"} -> "String"
DefaultOf(op) ==
  CASE op = "getBooleanDefault" -> RetBool(DefaultBoolean)
    [] op = "getDoubleDefault" -> RetDouble(DefaultDouble)
    [] op = "getIntegerDefault" -> RetInt(DefaultInteger)
    [] op = "getStringDefault" -> RetString(DefaultString)
StoredOf(op, f) ==
  CASE op = "getBooleanDefault" -> RetBool(f.boolean_value_)
    [] op = "getDoubleDefault" -> RetDouble(f.double_value_)
    [] op = "getIntegerDefault" -> RetInt(f.integer_value_)
    [] op = "getStringDefault" -> RetString(f.string_value_)
MissingOrNot(op) ==
  CASE WantedTag(op) = "Boolean" -> "key '{}' missing or not a boolean"
    [] WantedTag(op) = "Double" -> "key '{}' missing or not a double"
    [] WantedTag(op) = "Integer" -> "key '{}' missing or not an integer"
    [] WantedTag(op) = "String" -> "key '{}' missing or not a string"

\* C6: a defaulted scalar getter on an Object returns the default when the key
\* is absent, the stored value when the key holds the getter's tag, and throws
\* "key missing or not a ..." (never the default) when it holds another tag.
C6_DefaultedGetters ==
  (OnObject /\ call.op \in DefaultedOps) =>
     IF ~Present THEN call.ret = DefaultOf(call.op)
     ELSE IF heap[Child].type_ = WantedTag(call.op)
          THEN call.ret = StoredOf(call.op, heap[Child])
          ELSE /\ call.ret = Throw(<<MissingOrNot(call.op), call.name>>)
               /\ call.ret # DefaultOf(call.op)

\* getInteger(name, 7) was called where name holds a String.
C6_Witness ==
  /\ OnObject /\ call.op = "getIntegerDefault"
  /\ Present /\ heap[Child].type_ = "String"
  /\ call.ret.kind = "throw"

\* --------------------------------------------------------------------- C7
\* C7: getObject on an Object returns the child when the key holds an Object;
\* throws when the key holds anything else, whatever allow_empty is; with the
\* key absent it throws "missing" if allow_empty is false and otherwise
\* returns a new Object without entries, outside the tree, whose empty() is
\* true.
C7_GetObject ==
  (OnObject /\ call.op = "getObject") =>
     IF Present /\ isObject(heap, Child) THEN call.ret = RetPtr(Child)
     ELSE IF Present THEN call.ret = Throw(<<"key '{}' not an object", call.name>>)
     ELSE IF ~call.flag
          THEN call.ret = Throw(<<"key '{}' missing from lines", call.name>>)
          ELSE /\ call.ret.kind = "ok"
               /\ call.ret.ptr \in DOMAIN heap
               /\ call.ret.ptr \notin Reach(heap, result.root)
               /\ call.ret.ptr # call.recv
               /\ heap[call.ret.ptr].type_ = "Object"
               /\ heap[call.ret.ptr].object_value_ = EmptyMap
               /\ empty(heap, call.ret.ptr) = RetBool(TRUE)

\* getObject(name, true) was called where name is absent.
C7_Witness ==
  /\ OnObject /\ call.op = "getObject" /\ call.flag /\ ~Present
  /\ call.ret.kind = "ok" /\ call.ret.ptr \in temp

\* --------------------------------------------------------------------- C8
\* C8: getObjectArray and getStringArray on an Object: with the key absent
\* they return an empty sequence if allow_empty is true and throw if it is
\* false; with the key holding anything but an Array they throw for both
\* values of allow_empty.
C8_ArrayGetters ==
  (OnObject /\ call.op \in {"getObjectArray", "getStringArray"}) =>
     IF ~Present
     THEN IF call.flag THEN call.ret = R0
          ELSE call.ret = Throw(<<"key '{}' missing or not an array", call.name>>)
     ELSE ~isArray(heap, Child) =>
             call.ret = Throw(<<"key '{}' missing or not an array", call.name>>)

\* getObjectArray(name, true) was called where name holds something that is
\* not an Array.
C8_Witness ==
  /\ OnObject /\ call.op = "getObjectArray" /\ call.flag
  /\ Present /\ ~isArray(heap, Child)
  /\ call.ret.kind = "throw"

\* --------------------------------------------------------------------- C9
\* C9: getStringArray where the key holds an Array: if some element is not a
\* String the call throws and hands back no string, for both values of
\* allow_empty; otherwise it returns the strings of all elements in array
\* order.
C9_StringArrayAllOrNothing ==
  (OnObject /\ call.op = "getStringArray" /\ Present /\ isArray(heap, Child)) =>
     LET array == heap[Child].array_value_ IN
     IF \E i \in DOMAIN array : heap[array[i]].type_ # "String"
     THEN /\ call.ret.kind = "throw"
          /\ call.ret.strs = <<>>
     ELSE /\ call.ret.kind = "ok"
          /\ Len(call.ret.strs) = Len(array)
          /\ \A i \in DOMAIN array : call.ret.strs[i] = heap[array[i]].string_value_

\* getStringArray was called on an Array that starts with a String and holds
\* a later element that is none.
C9_Witness ==
  /\ OnObject /\ call.op = "getStringArray" /\ Present /\ isArray(heap, Child)
  /\ LET array == heap[Child].array_value_ IN
     /\ Len(array) >= 2
     /\ heap[array[1]].type_ = "String"
     /\ heap[array[2]].type_ # "String"
  /\ call.ret.kind = "throw"

\* -------------------------------------------------------------------- C10
KeyedOps == {"getBoolean", "getBooleanDefault", "getDouble", "getDoubleDefault",
             "getInteger", "getIntegerDefault", "getString", "getStringDefault",
             "getObject", "getObjectArray", "getStringArray", "hasObject", "iterate"}

\* C10: every keyed lookup on a receiver that is not an Object throws the
\* type mismatch of checkType(Object), wherever the receiver sits in the
\* tree; hasObject on an Object returns whether the key is present and does
\* not throw.
C10_ObjectOnly ==
  /\ (call.op \in KeyedOps /\ call.recv \in DOMAIN heap /\ ~isObject(heap, call.recv)) =>
        call.ret = Throw(TypeMismatch("Object", heap[call.recv].type_))
  /\ (OnObject /\ call.op = "hasObject") => call.ret = RetBool(Present)

\* A keyed lookup was made on a non-Object two levels below the root.
C10_Witness ==
  /\ Loaded /\ call.op \in KeyedOps /\ call.recv \in DOMAIN heap
  /\ ~isObject(heap, call.recv)
  /\ call.recv \in Reach(heap, result.root)
  /\ call.recv # result.root
  /\ \A k \in DOMAIN heap[result.root].object_value_ :
        heap[result.root].object_value_[k] # call.recv
  /\ \A i \in DOMAIN heap[result.root].array_value_ :
        heap[result.root].array_value_[i] # call.recv
  /\ call.ret.kind = "throw"

\* -------------------------------------------------------------------- C11
\* C11: empty() returns true exactly on an Object without entries and on an
\* Array without elements, false on an Object or Array that holds something,
\* and throws on a Null, Boolean, Integer, Double or String.
C11_Empty ==
  (call.op = "empty" /\ call.recv \in DOMAIN heap) =>
     LET f == heap[call.recv] IN
     IF f.type_ = "Object"
     THEN call.ret = RetBool(DOMAIN f.object_value_ = {})
     ELSE IF f.type_ = "Array"
          THEN call.ret = RetBool(Len(f.array_value_) = 0)
          ELSE /\ f.type_ \in {"Null", "Boolean", "Integer", "Double", "String"}
               /\ call.ret.kind = "throw"
               /\ call.ret.msg # <<>>

\* empty() was called on a scalar element that asObjectArray handed out.
C11_Witness ==
  /\ Loaded /\ call.op = "empty" /\ call.recv \in DOMAIN heap
  /\ call.recv # result.root
  /\ heap[call.recv].type_ \in {"Null", "Boolean", "Integer", "Double", "String"}
  /\ call.ret.kind = "throw"

\* -------------------------------------------------------------------- C12
\* The handler as event i of the load found it, and the address the Field
\* made for event i got.
Before(i) == feed(NewHandler, SubSeq(events, 1, i - 1), 1, FALSE)
NodeOf(i) == NewAddrLow(Before(i))
\* All of them at once: HandlerTrace[i] = Before(i), up to the handler after
\* the last event.
RECURSIVE TraceFrom(_, _)
TraceFrom(hs, i) ==
  IF i > Len(events) THEN hs
  ELSE LET h == hs[Len(hs)] IN
       TraceFrom(Append(hs, IF h.ret = "true" THEN OnEvent(h, events[i], NewAddrLow(h))
                            ELSE h),
                 i + 1)
HandlerTrace == TraceFrom(<<NewHandler>>, 1)
ValueKinds == ScalarKinds \cup StartKinds

\* The event delivered before event i, parse errors aside (0: none).
RECURSIVE PrevEvent(_)
PrevEvent(i) ==
  IF i <= 1 THEN 0
  ELSE IF events[i - 1].kind # "parse_error" THEN i - 1 ELSE PrevEvent(i - 1)

\* Event i is a value or container start that follows the key k delivered
\* inside object o, the innermost open container.
GivesMember(i, o, k) ==
  /\ events[i].kind \in ValueKinds
  /\ PrevEvent(i) # 0
  /\ events[PrevEvent(i)].kind = "key"
  /\ events[PrevEvent(i)].s = k
  /\ LET h == Before(i) IN h.ret = "true" /\ h.stack_ # <<>> /\ top(h) = o
\* The same, read off the trace hs of the handler.
GivesMemberIn(hs, i, o, k) ==
  /\ events[i].kind \in ValueKinds
  /\ PrevEvent(i) # 0
  /\ events[PrevEvent(i)].kind = "key"
  /\ events[PrevEvent(i)].s = k
  /\ hs[i].ret = "true" /\ hs[i].stack_ # <<>> /\ top(hs[i]) = o

TagOf(ev) ==
  CASE ev.kind = "start_object" -> "Object"
    [] ev.kind = "start_array" -> "Array"
    [] ev.kind = "boolean" -> "Boolean"
    [] ev.kind \in {"number_integer", "number_unsigned"} -> "Integer"
    [] ev.kind = "number_float" -> "Double"
    [] ev.kind = "null" -> "Null"
    [] ev.kind = "string" -> "String"

\* Node n of heap hp is the Field event ev stands for.
IsNodeOf(hp, n, ev) ==
  /\ n \in DOMAIN hp
  /\ hp[n].type_ = TagOf(ev)
  /\ ev.kind = "boolean" => asBoolean(hp, n) = RetBool(ev.b)
  /\ ev.kind = "number_integer" => asInteger(hp, n) = RetInt(ev.w)
  /\ ev.kind = "number_unsigned" => asInteger(hp, n) = RetInt(ToInt64(ev.w))
  /\ ev.kind = "number_float" => asDouble(hp, n) = RetDouble(ev.d)
  /\ ev.kind = "string" => asString(hp, n) = RetString(ev.s)

Max(S) == CHOOSE x \in S : \A y \in S : y <= x

\* C12: every Object holds at most one entry per key, and a key delivered
\* several times inside one object maps to the value of the last delivery,
\* whatever mix of scalars, objects and arrays the deliveries were; a key
\* never delivered is absent.
C12_LastKeyWins ==
  LET hs == HandlerTrace IN
  \A o \in DOMAIN heap :
    isObject(heap, o) =>
      /\ LET visited == iterate(heap, o, {}).strs IN
         \A i, j \in DOMAIN visited : visited[i] = visited[j] => i = j
      /\ \A k \in Keys :
           LET givers == {i \in DOMAIN events : GivesMemberIn(hs, i, o, k)} IN
           IF givers = {} THEN hasObject(heap, o, k) = RetBool(FALSE)
           ELSE /\ hasObject(heap, o, k) = RetBool(TRUE)
                /\ at(heap, o, k) = NewAddrLow(hs[Max(givers)])
                /\ IsNodeOf(heap, at(heap, o, k), events[Max(givers)])

\* One key was delivered twice inside one object, with values of two tags.
C12_Witness ==
  \E o \in DOMAIN heap, k \in Keys :
    /\ isObject(heap, o)
    /\ \E i, j \in DOMAIN events :
         /\ i < j /\ GivesMember(i, o, k) /\ GivesMember(j, o, k)
         /\ TagOf(events[i]) # TagOf(events[j])
         /\ heap[at(heap, o, k)].type_ = TagOf(events[j])

\* -------------------------------------------------------------------- C13
\* Event i is a value or container start delivered while array a was the
\* innermost open container.
GivesElement(i, a) ==
  /\ events[i].kind \in ValueKinds
  /\ LET h == Before(i) IN h.ret = "true" /\ h.stack_ # <<>> /\ top(h) = a

\* The events that gave array a its elements, in delivery order.
ElementEvents(a) ==
  SelectSeq([i \in 1..Len(events) |-> i], LAMBDA i : GivesElement(i, a))
\* The same, read off the trace hs of the handler.
ElementEventsIn(hs, a) ==
  SelectSeq([i \in 1..Len(events) |-> i],
            LAMBDA i : /\ events[i].kind \in ValueKinds
                       /\ hs[i].ret = "true" /\ hs[i].stack_ # <<>> /\ top(hs[i]) = a)

\* C13: the elements asObjectArray() and getObjectArray() return for an Array
\* are, in order and in number, the values and container starts delivered
\* while that array was the innermost open container.
C13_ArrayOrder ==
  LET hs == HandlerTrace IN
  \A a \in DOMAIN heap :
    isArray(heap, a) =>
      LET idx == ElementEventsIn(hs, a)
          elements == asObjectArray(heap, a) IN
      /\ elements.kind = "ok"
      /\ Len(elements.ptrs) = Len(idx)
      /\ \A j \in DOMAIN idx :
           /\ elements.ptrs[j] = NewAddrLow(hs[idx[j]])
           /\ IsNodeOf(heap, elements.ptrs[j], events[idx[j]])
      /\ \A o \in DOMAIN heap, k \in Keys :
           (isObject(heap, o) /\ find(heap, o, k) /\ at(heap, o, k) = a) =>
              \A allow_empty \in BOOLEAN :
                 getObjectArray(heap, o, k, allow_empty) = elements

\* An array got a container and then a scalar as its elements.
C13_Witness ==
  \E a \in DOMAIN heap :
    /\ isArray(heap, a)
    /\ Len(ElementEvents(a)) >= 2
    /\ events[ElementEvents(a)[1]].kind \in StartKinds
    /\ events[ElementEvents(a)[2]].kind \in ScalarKinds
    /\ heap[heap[a].array_value_[2]].type_ = TagOf(events[ElementEvents(a)[2]])

\* -------------------------------------------------------------------- C14
\* C14: iterate on an Object calls the callback on the entries one at a time
\* in the map's key order, on no entry twice, and not again once the callback
\* has returned false; a callback that always returns true is called on every
\* entry once.
C14_Iterate ==
  (OnObject /\ call.op = "iterate") =>
     LET m == heap[call.recv].object_value_
         names == SortedKeys(m)
         visited == call.ret.strs IN
     /\ call.ret.kind = "ok"
     /\ Len(visited) <= Len(names)
     /\ Len(call.ret.ptrs) = Len(visited)
     /\ \A i \in DOMAIN visited :
          /\ visited[i] = names[i]
          /\ call.ret.ptrs[i] = m[visited[i]]
          /\ i < Len(visited) => visited[i] \notin call.stop
     /\ \A i, j \in DOMAIN visited : visited[i] = visited[j] => i = j
     /\ Len(visited) < Len(names) => visited[Len(visited)] \in call.stop
     /\ (call.stop \cap DOMAIN m = {}) => visited = names

\* iterate stopped at the first of two entries.
C14_Witness ==
  /\ OnObject /\ call.op = "iterate"
  /\ DOMAIN heap[call.recv].object_value_ = Keys
  /\ call.stop = {"a"}
  /\ call.ret.strs = <<"a">>

\* -------------------------------------------------------------------- C15
\* The tree as loadFromString returned it, before any call.
AsLoaded == loadFromEvents(events, FALSE)

\* C15: whatever accessor, serialization and hash calls have been made on a
\* loaded tree, its nodes, their tags, values and keys, the answers of
\* hasObject and the canonical text are those of the tree as it was loaded;
\* an Object that getObject(name, true) made for a missing key is not in the
\* tree and the key is still missing.
C15_CallsChangeNothing ==
  Loaded =>
     LET orig == AsLoaded
         root == result.root IN
     /\ orig.result.root = root
     /\ Reach(heap, root) = Reach(orig.heap, root)
     /\ \A n \in Reach(orig.heap, root) :
          /\ heap[n] = orig.heap[n]
          /\ \A k \in Keys : hasObject(heap, n, k) = hasObject(orig.heap, n, k)
     /\ asJsonString(heap, root) = asJsonString(orig.heap, root)
     /\ (call.op = "getObject" /\ call.ret.kind = "ok" /\ call.ret.made # <<>>) =>
          /\ call.ret.ptr \notin Reach(heap, root)
          /\ call.recv \in Reach(heap, root) =>
               hasObject(heap, call.recv, call.name) = RetBool(FALSE)

\* getObject(name, true) made an Object for a key missing from a root that
\* has another entry.
C15_Witness ==
  /\ Loaded /\ call.op = "getObject" /\ call.recv = result.root
  /\ call.flag /\ call.ret.kind = "ok" /\ call.ret.made # <<>>
  /\ DOMAIN heap[result.root].object_value_ # {}

\* -------------------------------------------------------------------- C16
\* A step in which sax_parse invoked a callback, the event it was invoked
\* for, whether the callback returned true, and the Fields the step made.
Delivered == Len(events') = Len(events) + 1
Event == events'[Len(events')]
Accepted == pc' = "parsing"
Fresh == (DOMAIN heap') \ (DOMAIN heap)
\* The step left the Fields other than those in S as they were.
OthersKept(S) == \A m \in (DOMAIN heap) \ S : heap'[m] = heap[m]

StartStates == {"ExpectRoot", "ExpectValueOrStartObjectArray",
                "ExpectArrayValueOrEndArray"}

\* The step attached node n the way its state asks for: as the member key_
\* of the stack top, or as the last element of the stack top.
AttachedToTop(n) ==
  LET t == stack_[Len(stack_)] IN
  /\ OthersKept({t})
  /\ heap'[t].type_ = heap[t].type_
  /\ IF state_ = "ExpectValueOrStartObjectArray"
     THEN /\ heap'[t].type_ = "Object"
          /\ heap'[t].object_value_ = (key_ :> n) @@ heap[t].object_value_
          /\ heap'[t].array_value_ = heap[t].array_value_
     ELSE /\ heap'[t].type_ = "Array"
          /\ heap'[t].array_value_ = heap[t].array_value_ \o <<n>>
          /\ heap'[t].object_value_ = heap[t].object_value_

C16_Step ==
  (Delivered /\ Event.kind \in StartKinds) =>
     /\ Accepted <=> state_ \in StartStates
     /\ Accepted =>
          \E n \in Fresh :
            /\ Fresh = {n}
            /\ heap'[n] = Field(TagOf(Event))
            /\ stack_' = stack_ \o <<n>>
            /\ state_' = IF Event.kind = "start_object" THEN "ExpectKeyOrEndObject"
                         ELSE "ExpectArrayValueOrEndArray"
            /\ key_' = key_
            /\ IF state_ = "ExpectRoot"
               THEN root_' = n /\ OthersKept({})
               ELSE root_' = root_ /\ stack_ # <<>> /\ AttachedToTop(n)

\* C16: start_object and start_array return true exactly in ExpectRoot,
\* ExpectValueOrStartObjectArray and ExpectArrayValueOrEndArray; the new
\* empty container becomes the root, the member key_ of the stack top, or the
\* last element of the stack top, is pushed, and the state becomes
\* ExpectKeyOrEndObject for an object and ExpectArrayValueOrEndArray for an
\* array.
C16_ContainerStart == [][C16_Step]_vars

\* An array start was delivered after a key inside the root object.
C16_Witness ==
  /\ pc = "parsing" /\ events # <<>> /\ events[Len(events)].kind = "start_array"
  /\ Len(stack_) = 2 /\ isObject(heap, stack_[1])
  /\ find(heap, stack_[1], key_) /\ at(heap, stack_[1], key_) = stack_[2]
  /\ state_ = "ExpectArrayValueOrEndArray"

\* -------------------------------------------------------------------- C17
EndKinds == {"end_object", "end_array"}

C17_Step ==
  (Delivered /\ Event.kind \in EndKinds) =>
     /\ Accepted <=> state_ = (IF Event.kind = "end_object" THEN "ExpectKeyOrEndObject"
                               ELSE "ExpectArrayValueOrEndArray")
     /\ Accepted =>
          /\ stack_ # <<>>
          /\ Len(stack_') = Len(stack_) - 1
          /\ \A i \in DOMAIN stack_' : stack_'[i] = stack_[i]
          /\ state_' = IF stack_' = <<>> THEN "ExpectFinished"
                       ELSE IF heap[stack_'[Len(stack_')]].type_ = "Object"
                            THEN "ExpectKeyOrEndObject"
                            ELSE "ExpectArrayValueOrEndArray"
          /\ stack_' # <<>> => heap[stack_'[Len(stack_')]].type_ \in {"Object", "Array"}
          /\ heap' = heap
          /\ root_' = root_

\* C17: end_object returns true only in ExpectKeyOrEndObject and end_array
\* only in ExpectArrayValueOrEndArray; an accepted end pops one container,
\* leaves the tree as it is, and the state becomes ExpectFinished on an empty
\* stack, ExpectKeyOrEndObject over an Object and ExpectArrayValueOrEndArray
\* over an Array.
C17_ContainerEnd == [][C17_Step]_vars

\* An object inside an array was closed.
C17_Witness ==
  /\ pc = "parsing" /\ events # <<>> /\ events[Len(events)].kind = "end_object"
  /\ stack_ # <<>> /\ isArray(heap, stack_[Len(stack_)])
  /\ state_ = "ExpectArrayValueOrEndArray"

\* -------------------------------------------------------------------- C18
C18_Step ==
  (Delivered /\ Event.kind = "key") =>
     /\ Accepted <=> state_ = "ExpectKeyOrEndObject"
     /\ stack_' = stack_ /\ heap' = heap /\ root_' = root_
     /\ IF Accepted
        THEN key_' = Event.s /\ state_' = "ExpectValueOrStartObjectArray"
        ELSE key_' = key_ /\ state_' = state_ /\ pc' = "aborted"

\* C18: key returns true only in ExpectKeyOrEndObject, where it stores the
\* pending key, leaves stack and tree alone and moves to
\* ExpectValueOrStartObjectArray; in every other state it does not return
\* true and changes neither the pending key nor the state nor the tree.
C18_Key == [][C18_Step]_vars

\* A key was delivered inside an array.
C18_Witness ==
  /\ events # <<>> /\ events[Len(events)].kind = "key"
  /\ state_ = "ExpectArrayValueOrEndArray"
  /\ pc = "aborted"
  /\ key_ # events[Len(events)].s

\* -------------------------------------------------------------------- C19
C19_Step ==
  (/\ Delivered /\ Event.kind \in ScalarKinds
   /\ state_ \in {"ExpectValueOrStartObjectArray", "ExpectArrayValueOrEndArray"}) =>
     /\ Accepted
     /\ stack_ # <<>> /\ stack_' = stack_
     /\ root_' = root_ /\ key_' = key_
     /\ state_' = IF state_ = "ExpectValueOrStartObjectArray"
                  THEN "ExpectKeyOrEndObject" ELSE "ExpectArrayValueOrEndArray"
     /\ \E n \in Fresh :
          /\ Fresh = {n}
          /\ IsNodeOf(heap', n, Event)
          /\ AttachedToTop(n)

\* C19: a boolean, integer, unsigned, float, null or string event in
\* ExpectValueOrStartObjectArray makes the new Field the member key_ of the
\* stack-top Object and moves to ExpectKeyOrEndObject; in
\* ExpectArrayValueOrEndArray it makes it the last element of the stack-top
\* Array and keeps the state; in both the stack is unchanged and the callback
\* returns true.
C19_ValueEvent == [][C19_Step]_vars

\* An unsigned number was delivered after a key inside an object.
C19_Witness ==
  /\ pc = "parsing" /\ events # <<>>
  /\ events[Len(events)].kind = "number_unsigned"
  /\ state_ = "ExpectKeyOrEndObject"
  /\ stack_ # <<>>
  /\ find(heap, stack_[Len(stack_)], key_)
  /\ IsNodeOf(heap, at(heap, stack_[Len(stack_)], key_), events[Len(events)])

\* -------------------------------------------------------------------- C20
\* The states in which an event of a kind is permitted.
PermittedIn(kind) ==
  CASE kind \in StartKinds -> StartStates
    [] kind = "end_object" -> {"ExpectKeyOrEndObject"}
    [] kind = "end_array" -> {"ExpectArrayValueOrEndArray"}
    [] kind = "key" -> {"ExpectKeyOrEndObject"}
    [] kind \in ScalarKinds -> {"ExpectValueOrStartObjectArray",
                                "ExpectArrayValueOrEndArray"}

C20_Step ==
  (/\ Delivered
   /\ Event.kind \in StartKinds \cup EndKinds \cup {"key"} \cup ScalarKinds
   /\ state_ \notin PermittedIn(Event.kind)) =>
     pc' = "aborted"

\* C20: an event of any kind that arrives in a state not permitted for it
\* ends the construction fatally; a scalar or null in ExpectRoot,
\* ExpectKeyOrEndObject or ExpectFinished does so too and is not answered by
\* the stop-parsing return value.
C20_MisplacedEventIsFatal == [][C20_Step]_vars

\* -------------------------------------------------------------------- C21
C21_Step ==
  (Delivered /\ errors # <<>>) =>
     /\ state_' = state_ /\ stack_' = stack_ /\ key_' = key_
     /\ root_' = root_ /\ heap' = heap

\* C21: once a parse_error has been delivered, no later event is taken: it
\* leaves the state, the stack, the pending key and the tree as they were.
C21_NoEventAfterParseError == [][C21_Step]_vars

\* -------------------------------------------------------------------- C22
\* A binary event has been delivered in this load.
BinaryDelivered == \E i \in DOMAIN events : events[i].kind = "binary"

\* C22: a binary event is refused in every state without changing state,
\* stack or tree, and loadFromString reports the refusal as a parse error:
\* it throws the parse-error exception and returns no root.
C22_BinarySurfacedAsParseError ==
  BinaryDelivered =>
     /\ pc \in {"halted", "returned", "thrown"}
     /\ LET h == Before(Len(events)) IN
        /\ state_ = h.state_ /\ stack_ = h.stack_ /\ root_ = h.root_
        /\ heap = h.heap
     /\ pc # "halted" =>
          /\ pc = "thrown"
          /\ result.kind = "exception"
          /\ result.root = NULL
          /\ result.message # <<>>

\* -------------------------------------------------------------------- C23
\* v <= 2^63 - 1, and v - 2^64, for v = w.q * 2^62 + w.r.
FitsInt64(w) == w.q < 2 \/ (w.q = 2 /\ w.r < 0)
MinusTwoTo64(w) == Word(w.q - 4, w.r)

\* What the Integer accessors are to read back for a number event.
ReadBack(ev) ==
  IF ev.kind = "number_integer" \/ FitsInt64(ev.w) THEN ev.w ELSE MinusTwoTo64(ev.w)

C23_Step ==
  (/\ Delivered /\ Accepted
   /\ Event.kind \in {"number_integer", "number_unsigned", "number_float"}) =>
     \E n \in Fresh :
       LET t == stack_[Len(stack_)] IN
       IF Event.kind = "number_float"
       THEN /\ heap'[n].type_ = "Double"
            /\ asDouble(heap', n) = RetDouble(Event.d)
            /\ asInteger(heap', n).kind = "throw"
            /\ state_ = "ExpectValueOrStartObjectArray" =>
                 /\ getInteger(heap', t, key_).kind = "throw"
                 /\ getIntegerDefault(heap', t, key_, DefaultInteger).kind = "throw"
       ELSE /\ heap'[n].type_ = "Integer"
            /\ asInteger(heap', n) = RetInt(ReadBack(Event))
            /\ state_ = "ExpectValueOrStartObjectArray" =>
                 getInteger(heap', t, key_) = RetInt(ReadBack(Event))

\* C23: number_integer and number_unsigned both make an Integer; an unsigned
\* v reads back through getInteger and asInteger as v when v <= 2^63 - 1 and
\* as v - 2^64 when v >= 2^63; number_float makes a Double, which the Integer
\* accessors refuse.
C23_Numbers == [][C23_Step]_vars

\* The unsigned 2^63 was given to a key and reads back as -2^63.
C23_Witness ==
  /\ pc = "parsing" /\ events # <<>>
  /\ events[Len(events)] = [Ev("number_unsigned") EXCEPT !.w = Word(2, 0)]
  /\ state_ = "ExpectKeyOrEndObject" /\ stack_ # <<>>
  /\ getInteger(heap, stack_[Len(stack_)], key_) = RetInt(Word(-2, 0))

\* -------------------------------------------------------------------- C24
\* The events of the given kinds whose callback returned true.
AcceptedOf(kinds) ==
  LET hs == HandlerTrace IN
  {i \in DOMAIN events : events[i].kind \in kinds /\ hs[i + 1].ret = "true"}

C24_Finished ==
  state_ = "ExpectFinished" =>
     /\ root_ # NULL
     /\ stack_ = <<>>
     /\ Cardinality(AcceptedOf(StartKinds)) > 0
     /\ Cardinality(AcceptedOf(EndKinds)) = Cardinality(AcceptedOf(StartKinds))

C24_Step ==
  /\ (state_ # "ExpectFinished" /\ state_' = "ExpectFinished") =>
        /\ Delivered /\ Accepted /\ Event.kind \in EndKinds
        /\ Len(stack_) = 1 /\ stack_[1] = root_ /\ stack_' = <<>>
  /\ (Delivered /\ Accepted /\ Event.kind \in EndKinds /\ Len(stack_) = 1) =>
        state_' = "ExpectFinished"
  /\ state_ = "ExpectFinished" =>
        /\ state_' = state_ /\ stack_' = stack_ /\ root_' = root_
        /\ OthersKept({})
        /\ (Delivered /\ Event.kind # "parse_error") => ~Accepted

\* C24: the machine starts in ExpectRoot; it enters ExpectFinished exactly
\* when an end event closes the root container, with as many ends as starts
\* taken, the root set and the stack empty; in ExpectFinished no callback for
\* a start, end, key, value or binary event returns true, and no callback
\* (the parse_error report included) changes state, stack, root or tree.
C24_Terminal == (state_ = "ExpectRoot") /\ [](C24_Finished) /\ [][C24_Step]_vars

\* A document with a nested container was finished and a further event
\* was refused.
C24_Witness ==
  /\ state_ = "ExpectFinished"
  /\ Cardinality(AcceptedOf(StartKinds)) = 2
  /\ pc \in {"halted", "aborted"}
  /\ Len(events) = 5

\* -------------------------------------------------------------------- C25
\* The places node n is attached at: a member slot or an element slot of a
\* parent.
MemberSlots(n) ==
  UNION {{<<p, k>> : k \in {k2 \in DOMAIN heap[p].object_value_ :
                              heap[p].object_value_[k2] = n}} : p \in DOMAIN heap}
ElementSlots(n) ==
  UNION {{<<p, i>> : i \in {i2 \in DOMAIN heap[p].array_value_ :
                              heap[p].array_value_[i2] = n}} : p \in DOMAIN heap}
Slots(n) == Cardinality(MemberSlots(n)) + Cardinality(ElementSlots(n))

Children(p) ==
  {heap[p].object_value_[k] : k \in DOMAIN heap[p].object_value_}
    \cup {heap[p].array_value_[i] : i \in DOMAIN heap[p].array_value_}

\* The nodes reached from those in S in at most k steps down.
RECURSIVE Down(_, _)
Down(S, k) ==
  LET T == S \cup UNION {Children(p) : p \in S} IN
  IF k = 0 \/ T = S THEN S ELSE Down(T, k - 1)
Below(n) == Down(Children(n), Cardinality(DOMAIN heap))

\* Event i made node n and n was then replaced under its key, or the
\* callback of event i did not return true.
ReplacedOrRefused(i, n) ==
  /\ NodeOf(i) = n
  /\ \/ Before(i + 1).ret # "true"
     \/ \E o \in DOMAIN heap, k \in Keys :
          /\ GivesMember(i, o, k)
          /\ \E j \in DOMAIN events : j > i /\ GivesMember(j, o, k)

\* C25: the Fields form a forest without sharing and without a cycle: a node
\* is attached in at most one slot of one parent (none for the root and for
\* a node replaced under a repeated key), no node is below itself, and the
\* stack is a chain of direct children that starts at the root.
C25_Forest ==
  /\ \A n \in DOMAIN heap :
       /\ Slots(n) <= 1
       /\ n \notin Below(n)
       /\ Children(n) \subseteq DOMAIN heap
       /\ Slots(n) = 0 =>
            (n = root_ \/ \E i \in DOMAIN events : ReplacedOrRefused(i, n))
  /\ root_ # NULL => root_ \in DOMAIN heap /\ Slots(root_) = 0
  /\ stack_ # <<>> => stack_[1] = root_
  /\ \A i \in DOMAIN stack_ :
       /\ stack_[i] \in {root_} \cup Below(root_)
       /\ i > 1 => stack_[i] \in Children(stack_[i - 1])
       /\ \A j \in DOMAIN stack_ : stack_[i] = stack_[j] => i = j

\* An array was opened under a key whose earlier value it replaced.
C25_Witness ==
  /\ pc = "parsing" /\ Len(stack_) = 2
  /\ isArray(heap, stack_[2])
  /\ \E n \in DOMAIN heap, i \in DOMAIN events :
       /\ n # root_ /\ Slots(n) = 0 /\ ReplacedOrRefused(i, n)
       /\ Before(i + 1).ret = "true"

\* -------------------------------------------------------------------- C26
\* C26: in every state of a construction, the stack is empty exactly in
\* ExpectRoot and ExpectFinished, its top is an Object exactly in
\* ExpectKeyOrEndObject and ExpectValueOrStartObjectArray and an Array
\* exactly in ExpectArrayValueOrEndArray, and its depth is the number of
\* starts taken minus the number of ends taken; so no callback reads or pops
\* the top of an empty stack, inserts into an Array or appends to an Object.
C26_StateStack ==
  /\ (stack_ = <<>>) <=> (state_ \in {"ExpectRoot", "ExpectFinished"})
  /\ stack_ # <<>> =>
       LET t == stack_[Len(stack_)] IN
       /\ (heap[t].type_ = "Object") <=>
            (state_ \in {"ExpectKeyOrEndObject", "ExpectValueOrStartObjectArray"})
       /\ (heap[t].type_ = "Array") <=> (state_ = "ExpectArrayValueOrEndArray")
  /\ LET hs == HandlerTrace
         taken(kinds) ==
           Cardinality({i \in DOMAIN events :
                          events[i].kind \in kinds /\ hs[i + 1].ret = "true"}) IN
     /\ Len(stack_) = taken(StartKinds) - taken(EndKinds)
     /\ \A i \in DOMAIN hs : hs[i].ret \in {"true", "false", "abort"}
  /\ pc = "thrown" => hasParseError(H) /\ result = loadResult(H)

\* Two containers are open after three starts and one end, an Array on top.
C26_Witness ==
  /\ pc = "parsing" /\ Len(stack_) = 2
  /\ Cardinality(AcceptedOf(StartKinds)) = 3
  /\ Cardinality(AcceptedOf(EndKinds)) = 1
  /\ state_ = "ExpectArrayValueOrEndArray"
  /\ isObject(heap, stack_[1])

\* -------------------------------------------------------------------- C27
C27_Step ==
  /\ (Delivered /\ Event.kind # "key") => key_' = key_
  /\ (Delivered /\ Accepted /\ Event.kind \in ValueKinds
        /\ state_ = "ExpectValueOrStartObjectArray") =>
        LET j == PrevEvent(Len(events'))
            t == stack_[Len(stack_)] IN
        /\ j # 0 /\ events[j].kind = "key"
        /\ Before(j).stack_ # <<>> /\ top(Before(j)) = t
        /\ \E n \in Fresh :
             heap'[t].object_value_ = (events[j].s :> n) @@ heap[t].object_value_
  /\ (Delivered /\ Accepted /\ Event.kind \in EndKinds /\ stack_' # <<>>
        /\ heap'[stack_'[Len(stack_')]].type_ = "Object") =>
        state_' = "ExpectKeyOrEndObject"
  /\ (Delivered /\ Event.kind \in ValueKinds /\ state_ = "ExpectKeyOrEndObject") =>
        ~Accepted /\ OthersKept({})

\* C27: key_ is assigned by key events only (never cleared, never saved per
\* level), and every insert into an Object uses the key of the key event
\* delivered for that same object right before the inserting value or start:
\* a container that closes back into an Object leaves the machine waiting for
\* a key, so a key delivered inside the closed container is never used for a
\* member of the enclosing object.
C27_PendingKey == [][C27_Step]_vars

\* The root object got a member after a nested object with another key
\* had been closed.
C27_Witness ==
  /\ pc = "parsing" /\ Len(stack_) = 1 /\ events # <<>>
  /\ \E k \in Keys :
       /\ GivesMember(Len(events), root_, k)
       /\ \E j \in DOMAIN events :
            /\ events[j].kind = "key" /\ events[j].s # k
            /\ Len(Before(j).stack_) = 2
            /\ \A k2 \in DOMAIN heap[root_].object_value_ : k2 = k

\* -------------------------------------------------------------------- C28
\* The stream is a root object with two members of distinct keys, the
\* second one a scalar; and the same stream with the two members exchanged.
TwoRootMembers(evs) ==
  LET n == Len(evs) IN
  /\ n >= 6
  /\ evs[1].kind = "start_object" /\ evs[n].kind = "end_object"
  /\ evs[2].kind = "key" /\ evs[n - 2].kind = "key"
  /\ evs[n - 1].kind \in ScalarKinds
  /\ evs[2].s # evs[n - 2].s
SwapRootMembers(evs) ==
  LET n == Len(evs) IN
  <<evs[1], evs[n - 2], evs[n - 1]>> \o SubSeq(evs, 2, n - 3) \o <<evs[n]>>

\* At p an object with two scalar members of distinct keys starts; and the
\* stream with those two members exchanged.
TwoMembersAt(evs, p) ==
  /\ p + 5 <= Len(evs)
  /\ evs[p].kind = "start_object" /\ evs[p + 5].kind = "end_object"
  /\ evs[p + 1].kind = "key" /\ evs[p + 3].kind = "key"
  /\ evs[p + 2].kind \in ScalarKinds /\ evs[p + 4].kind \in ScalarKinds
  /\ evs[p + 1].s # evs[p + 3].s
SwapMembersAt(evs, p) ==
  SubSeq(evs, 1, p) \o <<evs[p + 3], evs[p + 4], evs[p + 1], evs[p + 2]>>
    \o SubSeq(evs, p + 5, Len(evs))

\* The streams that differ from this load's by exchanging the members of one
\* object.
Permuted ==
  (IF TwoRootMembers(events) THEN {SwapRootMembers(events)} ELSE {})
    \cup {SwapMembersAt(events, p) : p \in {q \in DOMAIN events : TwoMembersAt(events, q)}}

\* The text, the hash and the iteration of node n of heap hp: the keys the
\* callback saw and the text of the Fields it saw them with.
Rendering(hp, n) ==
  [text |-> asJsonString(hp, n),
   digest |-> hash(hp, n),
   visits |-> [stop \in StopSets |->
                 LET r == iterate(hp, n, stop) IN
                 <<r.kind, r.strs, [i \in DOMAIN r.ptrs |-> hp[r.ptrs[i]].type_]>>]]

\* C28: a construction from the same stream with the members of an object
\* exchanged yields, for the root and for every object below it, the same
\* canonical text, the same hash and the same iteration order, and answers
\* every accessor alike. Stated of the tree as it is returned, and of what
\* asJsonString(), hash() and iterate() called on it return.
C28_InsertionOrder ==
  (Loaded /\ call.op \in {"none", "asJsonString", "hash", "iterate"}) =>
     \A evs \in Permuted :
        LET other == loadFromEvents(evs, FALSE)
            o1 == getObject(heap, result.root, "a", FALSE, NULL)
            o2 == IF other.result.root = NULL THEN o1
                  ELSE getObject(other.heap, other.result.root, "a", FALSE, NULL) IN
        /\ other.result.kind = "root" /\ other.result.root # NULL
        /\ Rendering(heap, result.root) = Rendering(other.heap, other.result.root)
        /\ SameResults(heap, result.root, other.heap, other.result.root)
        /\ o1.kind = o2.kind
        /\ o1.kind = "ok" => Rendering(heap, o1.ptr) = Rendering(other.heap, o2.ptr)
        /\ (call.op = "asJsonString" /\ call.recv = result.root) =>
              call.ret = asJsonString(other.heap, other.result.root)
        /\ (call.op = "hash" /\ call.recv = result.root) =>
              call.ret = hash(other.heap, other.result.root)
        /\ (call.op = "iterate" /\ call.recv = result.root) =>
              call.ret.strs = iterate(other.heap, other.result.root, call.stop).strs

\* iterate was called on a root object whose two members can be exchanged.
C28_Witness ==
  /\ Loaded /\ TwoRootMembers(events)
  /\ call.op = "iterate" /\ call.recv = result.root /\ call.stop = {}
  /\ call.ret.strs = KeySeq
  /\ loadFromEvents(SwapRootMembers(events), FALSE).heap # AsLoaded.heap
====
